---- MODULE Spec2Model ----
(***************************************************************************)
(* Model of the to-do terminal application src/todo/src/main.rs:           *)
(* the input pump thread (lines 72-92), the mpsc channel (line 69), the    *)
(* event loop of main (lines 105-219) and the task store operations        *)
(* read_db / write_db / remove_task_at_index (lines 248-257, 354-362).     *)
(***************************************************************************)
EXTENDS Integers, Sequences, FiniteSets, TLC

VARIABLES
    active_menu_item,   \* main.rs:101  MenuItem::Home | MenuItem::Tasks
    show_pop_up,        \* main.rs:100
    task_list_state,    \* main.rs:102  ListState.selected : Option<usize>
    db,                 \* the content of DB_PATH: a sequence of Task
    fault,              \* what the file system did to the last access to DB_PATH
    overflow_checks,    \* the build profile: TRUE = debug (arithmetic overflow panics)
    raw_mode,           \* terminal raw mode (enable_raw_mode / disable_raw_mode)
    pc,                 \* position of the main thread
    ev,                 \* the event last taken from the channel (rx.recv())
    chan,               \* the mpsc channel tx -> rx, FIFO
    pump_pc,            \* position of the input pump thread
    elapsed,            \* last_tick.elapsed(), in units of time
    n_sent,             \* history: the number of events the pump has sent
    n_rcvd,             \* history: the number of events the loop has received
    unreadable,         \* DB_PATH is missing or is not a JSON array of Task
    frame,              \* the widgets of the last frame drawn, in render order
    call                \* history: the store operation called last, outside the loop

vars == <<active_menu_item, show_pop_up, task_list_state, db, fault,
          overflow_checks, raw_mode, pc, ev, chan, pump_pc, elapsed, n_sent, n_rcvd,
          unreadable, frame, call>>

ui   == <<active_menu_item, show_pop_up, task_list_state>>
pump == <<pump_pc, elapsed, n_sent>>

----------------------------------------------------------------------------
(* Bounds of the model *)

MaxTasks == 3       \* longest task file the loop is started on
MaxEvents == 3      \* events the pump sends in one run
MaxChan == 2        \* events the channel holds at a time (unbounded in the build)
MaxElapsed == 3     \* time since the last tick is counted up to this
MaxId == 4          \* add_task_to_db is called while the last id is below this
UsizeBits == 4      \* width of usize in the model (64 in the build)

(* Program constants *)

TickRate == 2       \* tick_rate, main.rs:70 (200 ms; one unit of time = 100 ms)

UsizeMax == 2 ^ UsizeBits - 1

----------------------------------------------------------------------------
(* Option<usize> *)

None == <<>>
Some(i) == <<i>>

(* struct Task, main.rs:31-37.  created_at is a timestamp the loop never reads. *)
MkTask(i) == [id |-> i, name |-> "task", created_at |-> 0, completed_at |-> None]

(* The names given to add_task_to_db. *)
TaskNames == {"buy milk", "task"}

(* The key codes the loop matches on, and one that it does not ("x"). *)
KeyCodes == {"q", "h", "t", "a", "Enter", "d", "Down", "Up", "x"}

(* enum Event<I>, main.rs:47-50: Input(key) is the key code, Tick is "Tick". *)
Tick == "Tick"
Events == KeyCodes \cup {Tick}

(* usize subtraction a - b: panics on overflow in a build with overflow checks,
   wraps modulo 2^w in one without. *)
SubOverflows(a, b) == a < b
WrappingSub(a, b) == (a - b + UsizeMax + 1) % (UsizeMax + 1)

----------------------------------------------------------------------------
(* Mutant of RemoveAt: the index is taken as 1-based. *)
RemoveAt_OneBased(s, i) == [k \in 1..(Len(s) - 1) |-> IF k < i THEN s[k] ELSE s[k + 1]]

(* Vec::remove(index) for index < len, main.rs:357 *)
RemoveAt(s, i) == [k \in 1..(Len(s) - 1) |-> IF k <= i THEN s[k] ELSE s[k + 1]]

(* What the file system does to one access to DB_PATH: nothing, or it fails
   the read (or the parse) of read_db, or it fails the write of write_db.
   Every read of a file that is missing or malformed fails. *)
Faults == IF unreadable THEN {"read"} ELSE {"none", "read", "write"}
ReadFaults == IF unreadable THEN {"read"} ELSE {"none", "read"}

(* read_db, main.rs:248-252: Err when the file cannot be read or parsed. *)
read_db(tasks, flt) ==
    IF flt = "read" THEN [ok |-> FALSE, tasks |-> <<>>]
                    ELSE [ok |-> TRUE, tasks |-> tasks]

(* write_db, main.rs:254-257: Err leaves the file as it was. *)
write_db(old, tasks, flt) ==
    IF flt = "write" THEN [ok |-> FALSE, db |-> old]
                     ELSE [ok |-> TRUE, db |-> tasks]

(* task_list_state.select(Some(selected - 1)), main.rs:359.
   res is "Ok", or "Panic" (attempt to subtract with overflow). *)
SelectAfterRemove(selected, oc) ==
    IF SubOverflows(selected, 1) /\ oc
    THEN [res |-> "Panic", sel |-> Some(selected)]
    ELSE [res |-> "Ok", sel |-> Some(WrappingSub(selected, 1))]

(* Mutant of remove_task_at_index: the selection is moved before write_db is
   tried, so a failed write leaves it moved. *)
remove_task_at_index_SelectFirst(sel, tasks, flt, oc) ==
    IF sel = None THEN [res |-> "Ok", sel |-> sel, db |-> tasks]
    ELSE LET selected == sel[1]
             rd == read_db(tasks, flt)
         IN  IF ~rd.ok THEN [res |-> "Err", sel |-> sel, db |-> tasks]
             ELSE IF selected >= Len(rd.tasks)
                  THEN [res |-> "Panic", sel |-> sel, db |-> tasks]
             ELSE LET parsed == RemoveAt(rd.tasks, selected)
                      after == SelectAfterRemove(selected, oc)
                      wr == write_db(tasks, parsed, flt)
                  IN  IF after.res = "Panic" THEN [res |-> "Panic", sel |-> sel, db |-> tasks]
                      ELSE IF ~wr.ok THEN [res |-> "Err", sel |-> after.sel, db |-> wr.db]
                      ELSE [res |-> "Ok", sel |-> after.sel, db |-> wr.db]

(* remove_task_at_index, main.rs:354-362.
   res: "Ok" (Ok(())), "Err" (an Error returned by ?), "Panic". *)
remove_task_at_index(sel, tasks, flt, oc) ==
    IF sel = None THEN [res |-> "Ok", sel |-> sel, db |-> tasks]
    ELSE LET selected == sel[1]
             rd == read_db(tasks, flt)
         IN  IF ~rd.ok THEN [res |-> "Err", sel |-> sel, db |-> tasks]
             ELSE IF selected >= Len(rd.tasks)
                  \* Vec::remove panics: removal index should be < len
                  THEN [res |-> "Panic", sel |-> sel, db |-> tasks]
             ELSE LET parsed == RemoveAt(rd.tasks, selected)
                      wr == write_db(tasks, parsed, flt)
                      after == SelectAfterRemove(selected, oc)
                  IN  IF ~wr.ok THEN [res |-> "Err", sel |-> sel, db |-> wr.db]
                      ELSE [res |-> after.res, sel |-> after.sel, db |-> wr.db]

(* The new task of add_task_to_db, main.rs:344-349.  created_at is Utc::now(),
   a timestamp nothing reads. *)
NewTask(new_id, task_name) ==
    [id |-> new_id, name |-> task_name, created_at |-> 0, completed_at |-> None]

(* Mutant of add_task_to_db: the new id is the last id, not the last id + 1. *)
add_task_to_db_SameId(tasks, task_name, flt, oc) ==
    LET rd == read_db(tasks, flt)
        parsed == rd.tasks
        new_id == IF parsed = <<>> THEN 0 ELSE parsed[Len(parsed)].id
        pushed == Append(parsed, NewTask(new_id, task_name))
        wr == write_db(tasks, pushed, flt)
    IN  IF ~rd.ok THEN [res |-> "Err", db |-> tasks]
        ELSE IF ~wr.ok THEN [res |-> "Err", db |-> wr.db]
        ELSE [res |-> "Ok", db |-> wr.db]

(* Mutant of add_task_to_db: the new id is the number of tasks. *)
add_task_to_db_IdFromLen(tasks, task_name, flt, oc) ==
    LET rd == read_db(tasks, flt)
        parsed == rd.tasks
        new_id == Len(parsed)
        pushed == Append(parsed, NewTask(new_id, task_name))
        wr == write_db(tasks, pushed, flt)
    IN  IF ~rd.ok THEN [res |-> "Err", db |-> tasks]
        ELSE IF ~wr.ok THEN [res |-> "Err", db |-> wr.db]
        ELSE [res |-> "Ok", db |-> wr.db]

(* add_task_to_db, main.rs:336-352.  task.id + 1 is a usize addition: at
   usize::MAX it panics with overflow checks and wraps to 0 without. *)
add_task_to_db(tasks, task_name, flt, oc) ==
    LET rd == read_db(tasks, flt)
        parsed == rd.tasks
        last_id == IF parsed = <<>> THEN 0 ELSE parsed[Len(parsed)].id
        overflows == parsed # <<>> /\ last_id = UsizeMax
        new_id == IF parsed = <<>> THEN 0
                  ELSE IF overflows THEN 0
                  ELSE last_id + 1
        pushed == Append(parsed, NewTask(new_id, task_name))
        wr == write_db(tasks, pushed, flt)
    IN  IF ~rd.ok THEN [res |-> "Err", db |-> tasks]
        ELSE IF overflows /\ oc THEN [res |-> "Panic", db |-> tasks]
        ELSE IF ~wr.ok THEN [res |-> "Err", db |-> wr.db]
        ELSE [res |-> "Ok", db |-> wr.db]

(* Mutant of KeyDown: the wrap test is > instead of >=. *)
KeyDown_Strict(sel, tasks, flt, oc) ==
    IF sel = None THEN [res |-> "Ok", sel |-> sel]
    ELSE LET selected == sel[1]
             rd == read_db(tasks, flt)
             amount_tasks == Len(rd.tasks)
         IN  IF ~rd.ok THEN [res |-> "Panic", sel |-> sel]
             ELSE IF SubOverflows(amount_tasks, 1) /\ oc
                  THEN [res |-> "Panic", sel |-> sel]
             ELSE IF selected > WrappingSub(amount_tasks, 1)
                  THEN [res |-> "Ok", sel |-> Some(0)]
                  ELSE [res |-> "Ok", sel |-> Some(selected + 1)]

(* KeyCode::Down, main.rs:195-204.  res "Panic": expect("Can read db.") or
   amount_tasks - 1 overflowing. *)
KeyDown(sel, tasks, flt, oc) ==
    IF sel = None THEN [res |-> "Ok", sel |-> sel]
    ELSE LET selected == sel[1]
             rd == read_db(tasks, flt)
             amount_tasks == Len(rd.tasks)
         IN  IF ~rd.ok THEN [res |-> "Panic", sel |-> sel]
             ELSE IF SubOverflows(amount_tasks, 1) /\ oc
                  THEN [res |-> "Panic", sel |-> sel]
             ELSE IF selected >= WrappingSub(amount_tasks, 1)
                  THEN [res |-> "Ok", sel |-> Some(0)]
                  ELSE [res |-> "Ok", sel |-> Some(selected + 1)]

(* KeyCode::Up, main.rs:205-214 *)
KeyUp(sel, tasks, flt, oc) ==
    IF sel = None THEN [res |-> "Ok", sel |-> sel]
    ELSE LET selected == sel[1]
             rd == read_db(tasks, flt)
             amount_tasks == Len(rd.tasks)
         IN  IF ~rd.ok THEN [res |-> "Panic", sel |-> sel]
             ELSE IF selected > 0
                  THEN [res |-> "Ok", sel |-> Some(selected - 1)]
             ELSE IF SubOverflows(amount_tasks, 1) /\ oc
                  THEN [res |-> "Panic", sel |-> sel]
                  ELSE [res |-> "Ok", sel |-> Some(WrappingSub(amount_tasks, 1))]

(* Mutant of render_todo: the selection may be one past the end. *)
render_todo_OffByOne(sel, tasks, flt) ==
    LET rd == read_db(tasks, flt)
    IN  /\ rd.ok
        /\ sel # None
        /\ sel[1] <= Len(rd.tasks)

(* render_todo, main.rs:259-284: TRUE when it returns, FALSE when one of its
   three expect calls panics. *)
render_todo(sel, tasks, flt) ==
    LET rd == read_db(tasks, flt)
    IN  /\ rd.ok                      \* expect("Can fetch task list")
        /\ sel # None                 \* expect("There is always a selected task.")
        /\ sel[1] < Len(rd.tasks)     \* task_list.get(..).expect("Exists")

----------------------------------------------------------------------------
(* No store operation has been called from outside the loop. *)
NoCall == [op |-> "none", name |-> "", index |-> 0, before |-> <<>>]

(* The initial state: main.rs:68-70 and 99-103, the pump at line 73. *)

InitDbs == { [k \in 1..n |-> MkTask(k - 1)] : n \in 0..MaxTasks }

Init ==
    /\ active_menu_item = "Home"
    /\ show_pop_up = FALSE
    /\ task_list_state = Some(0)
    /\ unreadable \in BOOLEAN
    /\ db \in (IF unreadable THEN {<<>>} ELSE InitDbs)
    /\ fault = "none"
    /\ overflow_checks \in BOOLEAN
    /\ raw_mode = TRUE
    /\ pc = "draw"
    /\ ev = [code |-> "none", seq |-> 0]
    /\ chan = <<>>
    /\ pump_pc = "poll"
    /\ elapsed = 0
    /\ n_sent = 0
    /\ n_rcvd = 0
    /\ frame = <<>>
    /\ call = NoCall

(* The process is alive: main has neither returned nor panicked. *)
Running == pc \in {"draw", "recv"}

----------------------------------------------------------------------------
(* The main thread *)

(* The render_widget calls of the draw closure, main.rs:132-178, in the order
   they are made: the copyright line, the tabs, the popup (Clear, then its
   block) if show_pop_up, then the widgets of the active view. *)
RenderOrder(popup, view) ==
    <<"copyright", "tabs">>
    \o (IF popup THEN <<"clear", "popup">> ELSE <<>>)
    \o (IF view = "Home" THEN <<"home">> ELSE <<"list", "detail">>)

(* Mutant of Draw: the task list is fetched for every frame, whatever the view. *)
Draw_ReadsAlways ==
    /\ pc = "draw"
    /\ \E f \in ReadFaults :
         /\ fault' = f
         /\ IF read_db(db, f).ok
               /\ (active_menu_item = "Tasks" => render_todo(task_list_state, db, f))
            THEN pc' = "recv" /\ frame' = RenderOrder(show_pop_up, active_menu_item)
            ELSE pc' = "panicked" /\ UNCHANGED frame
    /\ UNCHANGED <<ui, db, overflow_checks, unreadable, call, raw_mode, ev, chan, pump, n_rcvd>>

(* terminal.draw(...), main.rs:106-179.  A panic in the closure leaves the
   frame on the screen as it was. *)
Draw ==
    /\ pc = "draw"
    /\ IF active_menu_item = "Tasks"
       THEN \E f \in ReadFaults :
                /\ fault' = f
                /\ IF render_todo(task_list_state, db, f)
                   THEN pc' = "recv" /\ frame' = RenderOrder(show_pop_up, active_menu_item)
                   ELSE pc' = "panicked" /\ UNCHANGED frame
       ELSE /\ pc' = "recv"
            /\ frame' = RenderOrder(show_pop_up, active_menu_item)
            /\ UNCHANGED fault
    /\ UNCHANGED <<ui, db, overflow_checks, unreadable, call, raw_mode, ev, chan, pump, n_rcvd>>

(* Mutant of Recv: the newest event of the channel is taken, not the oldest. *)
Recv_Newest(e) ==
    /\ pc = "recv"
    /\ chan # <<>>
    /\ e = chan[Len(chan)].code
    /\ chan' = SubSeq(chan, 1, Len(chan) - 1)
    /\ ev' = chan[Len(chan)]
    /\ n_rcvd' = n_rcvd + 1

(* rx.recv()?, main.rs:181: blocks until the channel holds an event, takes the
   oldest one. *)
Recv(e) ==
    /\ pc = "recv"
    /\ chan # <<>>
    /\ e = Head(chan).code
    /\ chan' = Tail(chan)
    /\ ev' = Head(chan)
    /\ n_rcvd' = n_rcvd + 1

(* KeyCode::Char('q'), main.rs:183-187 *)
KeyQ ==
    /\ Recv("q")
    /\ raw_mode' = FALSE
    /\ pc' = "exited"
    /\ UNCHANGED <<ui, db, fault, overflow_checks, unreadable, call, frame, pump>>

(* Mutant of KeyH: going home also closes the popup. *)
KeyH_ClosesPopup ==
    /\ Recv("h")
    /\ active_menu_item' = "Home"
    /\ show_pop_up' = FALSE
    /\ pc' = "draw"
    /\ UNCHANGED <<task_list_state, db, fault, overflow_checks, unreadable, call, frame, raw_mode, pump>>

(* KeyCode::Char('h'), main.rs:188 *)
KeyH ==
    /\ Recv("h")
    /\ active_menu_item' = "Home"
    /\ pc' = "draw"
    /\ UNCHANGED <<show_pop_up, task_list_state, db, fault, overflow_checks, unreadable, call, frame, raw_mode, pump>>

(* KeyCode::Char('t'), main.rs:189 *)
KeyT ==
    /\ Recv("t")
    /\ active_menu_item' = "Tasks"
    /\ pc' = "draw"
    /\ UNCHANGED <<show_pop_up, task_list_state, db, fault, overflow_checks, unreadable, call, frame, raw_mode, pump>>

(* Mutant of KeyA: 'a' adds a task right away. *)
KeyA_AddsTask ==
    /\ Recv("a")
    /\ show_pop_up' = TRUE
    /\ pc' = "draw"
    /\ db' = add_task_to_db(db, "task", "none", overflow_checks).db
    /\ UNCHANGED <<active_menu_item, task_list_state, fault, overflow_checks, unreadable, call, frame, raw_mode, pump>>

(* KeyCode::Char('a'), main.rs:190 *)
KeyA ==
    /\ Recv("a")
    /\ show_pop_up' = TRUE
    /\ pc' = "draw"
    /\ UNCHANGED <<active_menu_item, task_list_state, db, fault, overflow_checks, unreadable, call, frame, raw_mode, pump>>

(* Mutant of KeyEnter: Enter toggles the popup. *)
KeyEnter_Toggles ==
    /\ Recv("Enter")
    /\ show_pop_up' = ~show_pop_up
    /\ pc' = "draw"
    /\ UNCHANGED <<active_menu_item, task_list_state, db, fault, overflow_checks, unreadable, call, frame, raw_mode, pump>>

(* KeyCode::Enter, main.rs:191 *)
KeyEnter ==
    /\ Recv("Enter")
    /\ show_pop_up' = FALSE
    /\ pc' = "draw"
    /\ UNCHANGED <<active_menu_item, task_list_state, db, fault, overflow_checks, unreadable, call, frame, raw_mode, pump>>

(* KeyCode::Char('d'), main.rs:192-194: an Err is dropped by unwrap_or_else. *)
KeyD ==
    /\ Recv("d")
    /\ \E f \in Faults :
         LET r == remove_task_at_index(task_list_state, db, f, overflow_checks)
         IN  /\ fault' = f
             /\ task_list_state' = r.sel
             /\ db' = r.db
             /\ pc' = IF r.res = "Panic" THEN "panicked" ELSE "draw"
    /\ UNCHANGED <<active_menu_item, show_pop_up, overflow_checks, unreadable, call, frame, raw_mode, pump>>

(* KeyCode::Down, main.rs:195-204 *)
KeyDownArm ==
    /\ Recv("Down")
    /\ \E f \in ReadFaults :
         LET r == KeyDown(task_list_state, db, f, overflow_checks)
         IN  /\ fault' = f
             /\ task_list_state' = r.sel
             /\ pc' = IF r.res = "Panic" THEN "panicked" ELSE "draw"
    /\ UNCHANGED <<active_menu_item, show_pop_up, db, overflow_checks, unreadable, call, frame, raw_mode, pump>>

(* KeyCode::Up, main.rs:205-214 *)
KeyUpArm ==
    /\ Recv("Up")
    /\ \E f \in ReadFaults :
         LET r == KeyUp(task_list_state, db, f, overflow_checks)
         IN  /\ fault' = f
             /\ task_list_state' = r.sel
             /\ pc' = IF r.res = "Panic" THEN "panicked" ELSE "draw"
    /\ UNCHANGED <<active_menu_item, show_pop_up, db, overflow_checks, unreadable, call, frame, raw_mode, pump>>

(* _ => {}, main.rs:215 *)
KeyOther ==
    /\ Recv("x")
    /\ pc' = "draw"
    /\ UNCHANGED <<ui, db, fault, overflow_checks, unreadable, call, frame, raw_mode, pump>>

(* Event::Tick => {}, main.rs:217 *)
TickArm ==
    /\ Recv(Tick)
    /\ pc' = "draw"
    /\ UNCHANGED <<ui, db, fault, overflow_checks, unreadable, call, frame, raw_mode, pump>>

----------------------------------------------------------------------------
(* The input pump thread, main.rs:72-92 *)

(* tx.send(e), main.rs:82 and 87 *)
Send(e) ==
    /\ n_sent < MaxEvents
    /\ Len(chan) < MaxChan
    /\ chan' = Append(chan, [code |-> e, seq |-> n_sent + 1])
    /\ n_sent' = n_sent + 1

(* Mutant of PumpKey: forwarding a key also restarts the tick interval. *)
PumpKey_ResetsTick ==
    /\ Running
    /\ pump_pc = "poll"
    /\ \E k \in KeyCodes : Send(k)
    /\ pump_pc' = "tick"
    /\ elapsed' = 0
    /\ UNCHANGED <<ui, db, fault, overflow_checks, unreadable, call, frame, raw_mode, pc, ev, n_rcvd>>

(* event::poll(timeout) is true and event::read() is a key: main.rs:80-84 *)
PumpKey ==
    /\ Running
    /\ pump_pc = "poll"
    /\ \E k \in KeyCodes : Send(k)
    /\ pump_pc' = "tick"
    /\ UNCHANGED <<ui, db, fault, overflow_checks, unreadable, call, frame, raw_mode, pc, ev, elapsed, n_rcvd>>

(* event::poll(timeout) is true and event::read() is not a key (a resize, a
   mouse event): nothing is sent. *)
PumpNoKey ==
    /\ Running
    /\ pump_pc = "poll"
    /\ pump_pc' = "tick"
    /\ UNCHANGED <<ui, db, fault, overflow_checks, unreadable, call, frame, raw_mode, pc, ev, chan, elapsed, n_sent, n_rcvd>>

(* event::poll(timeout) is false: the timeout tick_rate - elapsed has passed. *)
PumpTimeout ==
    /\ Running
    /\ pump_pc = "poll"
    /\ elapsed >= TickRate
    /\ pump_pc' = "tick"
    /\ UNCHANGED <<ui, db, fault, overflow_checks, unreadable, call, frame, raw_mode, pc, ev, chan, elapsed, n_sent, n_rcvd>>

(* Mutant of PumpTick: the interval is restarted but no Tick is sent. *)
PumpTick_NoSend ==
    /\ Running
    /\ pump_pc = "tick"
    /\ elapsed' = IF elapsed >= TickRate THEN 0 ELSE elapsed
    /\ pump_pc' = "poll"
    /\ UNCHANGED <<ui, db, fault, overflow_checks, unreadable, call, frame, raw_mode, pc, ev,
                   chan, n_sent, n_rcvd>>

(* if last_tick.elapsed() >= tick_rate { send(Tick); last_tick = now }, main.rs:86-90 *)
PumpTick ==
    /\ Running
    /\ pump_pc = "tick"
    /\ IF elapsed >= TickRate
       THEN Send(Tick) /\ elapsed' = 0
       ELSE UNCHANGED <<chan, n_sent, elapsed>>
    /\ pump_pc' = "poll"
    /\ UNCHANGED <<ui, db, fault, overflow_checks, unreadable, call, frame, raw_mode, pc, ev, n_rcvd>>

----------------------------------------------------------------------------
(* The environment *)

(* Time passes. *)
Tock ==
    /\ Running
    /\ elapsed < MaxElapsed
    /\ elapsed' = elapsed + 1
    /\ UNCHANGED <<ui, db, fault, overflow_checks, unreadable, call, frame, raw_mode, pc, ev, chan, pump_pc, n_sent, n_rcvd>>

----------------------------------------------------------------------------
Next ==
    \/ Draw
    \/ KeyQ \/ KeyH \/ KeyT \/ KeyA \/ KeyEnter \/ KeyD
    \/ KeyDownArm \/ KeyUpArm \/ KeyOther \/ TickArm
    \/ PumpKey \/ PumpNoKey \/ PumpTimeout \/ PumpTick
    \/ Tock

Spec == Init /\ [][Next]_vars

----------------------------------------------------------------------------
(* The task store on its own: add_task_to_db and remove_task_at_index called
   one after the other on a file that starts as the empty array. *)

InitStore ==
    /\ active_menu_item = "Home"
    /\ show_pop_up = FALSE
    /\ task_list_state = Some(0)
    /\ unreadable = FALSE
    /\ db = <<>>
    /\ fault = "none"
    /\ overflow_checks \in BOOLEAN
    /\ raw_mode = FALSE
    /\ pc = "store"
    /\ ev = [code |-> "none", seq |-> 0]
    /\ chan = <<>>
    /\ pump_pc = "poll"
    /\ elapsed = 0
    /\ n_sent = 0
    /\ n_rcvd = 0
    /\ frame = <<>>
    /\ call = NoCall

(* add_task_to_db(name), main.rs:336-352 *)
AddCall ==
    /\ pc = "store"
    /\ Len(db) < MaxTasks
    /\ IF db = <<>> THEN TRUE ELSE db[Len(db)].id < MaxId
    /\ \E name \in TaskNames, f \in Faults :
         LET r == add_task_to_db(db, name, f, overflow_checks)
         IN  /\ fault' = f
             /\ db' = r.db
             /\ pc' = IF r.res = "Panic" THEN "panicked" ELSE "store"
             /\ call' = [op |-> "add", name |-> name, index |-> 0, before |-> db]
    /\ UNCHANGED <<ui, overflow_checks, unreadable, frame, raw_mode, ev, chan, pump, n_rcvd>>

(* remove_task_at_index with the selection Some(i), i an index of the store,
   main.rs:354-362 *)
RemoveCall ==
    /\ pc = "store"
    /\ \E i \in 0..(Len(db) - 1), f \in Faults :
         LET r == remove_task_at_index(Some(i), db, f, overflow_checks)
         IN  /\ fault' = f
             /\ task_list_state' = r.sel
             /\ db' = r.db
             /\ pc' = IF r.res = "Panic" THEN "panicked" ELSE "store"
             /\ call' = [op |-> "remove", name |-> "", index |-> i, before |-> db]
    /\ UNCHANGED <<active_menu_item, show_pop_up, overflow_checks, unreadable, frame,
                   raw_mode, ev, chan, pump, n_rcvd>>

NextStore == AddCall \/ RemoveCall

SpecStore == InitStore /\ [][NextStore]_vars

----------------------------------------------------------------------------
(* The program with no key ever pressed: the pump forwards nothing, so the
   loop only draws and receives Ticks.  Both threads are scheduled fairly and
   time passes. *)
NextNoKeys ==
    \/ Draw
    \/ TickArm
    \/ PumpNoKey \/ PumpTimeout \/ PumpTick
    \/ Tock

SpecNoKeys ==
    /\ Init
    /\ [][NextNoKeys]_vars
    /\ WF_vars(Draw) /\ WF_vars(TickArm)
    /\ WF_vars(PumpTimeout) /\ WF_vars(PumpTick)
    /\ WF_vars(Tock)

----------------------------------------------------------------------------
(* Vocabulary of the claims *)

(* The step is the loop's: it takes event c from the channel and dispatches it. *)
Dispatching(c) ==
    /\ pc = "recv" /\ chan # <<>> /\ Head(chan).code = c
    /\ n_rcvd' = n_rcvd + 1

(* The selection is Some(i) with i an index of the persisted sequence. *)
ValidSelection ==
    /\ task_list_state # None
    /\ task_list_state[1] >= 0
    /\ task_list_state[1] < Len(db)

(* The ids of a task sequence, in order. *)
Ids(s) == [k \in 1..Len(s) |-> s[k].id]

----------------------------------------------------------------------------
(* C1: after a successful 'd' with selected_index = Some(i), 0 <= i < n, the
   selection is Some(i-1) if i > 0 and Some(0) if i = 0, and the loop is still
   running.  The code computes selected - 1 on a usize: at i = 0 it panics
   (overflow checks on) or selects Some(usize::MAX) (overflow checks off). *)
C1_SelectionAfterDelete ==
    [][ (Dispatching("d") /\ ValidSelection /\ fault' = "none")
        => /\ pc' = "draw"
           /\ task_list_state' =
                Some(IF task_list_state[1] > 0 THEN task_list_state[1] - 1 ELSE 0) ]_vars

(* C2: in every state of the running loop with a non-empty store, the
   selection is Some(i) with 0 <= i < number of tasks.  Fails after 'd' at
   index 0 of a store of two or more tasks in a build without overflow checks. *)
C2_SelectionValid ==
    (Running /\ Len(db) >= 1) => ValidSelection

(* C3: the loop ends only by dispatching KeyPress('q').  Fails: the process
   also ends by a panic in render_todo, remove_task_at_index, Down and Up. *)
C3_ExitOnlyByQuit ==
    ~Running => (pc = "exited" /\ ev.code = "q")

(* C4: with n >= 1 tasks and the selection Some(i), 0 <= i < n, Down selects 0
   if i >= n-1 and i+1 otherwise, Up selects i-1 if i > 0 and n-1 otherwise, n
   being the length read from the store; the store is unchanged. *)
C4_Navigation ==
    [][ (ValidSelection /\ fault' = "none")
        => LET i == task_list_state[1]
               n == Len(db)
           IN  /\ Dispatching("Down")
                    => /\ task_list_state' = Some(IF i >= n - 1 THEN 0 ELSE i + 1)
                       /\ db' = db
                       /\ pc' = "draw"
               /\ Dispatching("Up")
                    => /\ task_list_state' = Some(IF i > 0 THEN i - 1 ELSE n - 1)
                       /\ db' = db
                       /\ pc' = "draw" ]_vars

(* C4 witness: Up at index 0 of a full-length store has wrapped to the last index. *)
C4_Witness ==
    /\ pc = "draw" /\ ev.code = "Up" /\ fault = "none"
    /\ Len(db) = MaxTasks
    /\ task_list_state = Some(MaxTasks - 1)

(* C5: deleting at a valid index i (reads and writes succeeding) persists the
   old sequence without its element at position i: the length drops by one,
   the other tasks are kept unmodified, in order, and no id is renumbered. *)
C5_RemovePreservesOthers ==
    [][ (Dispatching("d") /\ ValidSelection /\ fault' = "none")
        => LET i == task_list_state[1]
           IN  /\ Len(db') = Len(db) - 1
               /\ \A k \in 1..Len(db') : db'[k] = IF k <= i THEN db[k] ELSE db[k + 1] ]_vars

(* C5 witness: the middle task of <<0, 1, 2>> has been deleted, 0 and 2 remain. *)
C5_Witness ==
    /\ ev.code = "d" /\ fault = "none"
    /\ Ids(db) = <<0, 2>>
    /\ task_list_state = Some(0)

(* C6: if the read or the write of the store fails while 'd' is dispatched, the
   keystroke changes nothing (view, selection, popup flag, persisted sequence)
   and the loop goes on to its next iteration. *)
C6_DeleteFailureIsNoOp ==
    [][ ( /\ Dispatching("d")
          /\ task_list_state # None
          /\ \/ fault' = "read"
             \/ fault' = "write" /\ ValidSelection )
        => /\ UNCHANGED <<active_menu_item, show_pop_up, task_list_state, db>>
           /\ pc' = "draw" ]_vars

(* C6 witness: a 'd' whose write failed has been dispatched on a full store. *)
C6_Witness ==
    /\ pc = "draw" /\ ev.code = "d" /\ fault = "write"
    /\ Len(db) = MaxTasks

(* C7: a delete at an index that is no position of the store (index >= length)
   is a no-op or returns an error value: the persisted store is unchanged and
   the loop keeps running.  Fails: Vec::remove panics. *)
C7_DeleteOutOfRange ==
    [][ (Dispatching("d") /\ task_list_state # None /\ task_list_state[1] >= Len(db))
        => (db' = db /\ pc' = "draw") ]_vars

(* C8: whenever the loop has ended, raw mode has been disabled; dispatching
   'q' ends the loop, and no event is dispatched after the loop has ended.
   Fails in its first part: a panic ends the process with raw mode still
   enabled. *)
C8_RawModeRestored ==
    [][ /\ ~Running' => raw_mode' = FALSE
        /\ Dispatching("q") => (pc' = "exited" /\ raw_mode' = FALSE)
        /\ ~Running => n_rcvd' = n_rcvd ]_vars

(* C9: the loop receives the events in the order the pump sent them, none
   dropped, none twice: the event dispatched last is the n_rcvd-th one sent,
   and the channel holds exactly the events sent after it, in order. *)
C9_ChannelFifo ==
    /\ n_rcvd > 0 => ev.seq = n_rcvd
    /\ Len(chan) = n_sent - n_rcvd
    /\ \A k \in 1..Len(chan) : chan[k].seq = n_rcvd + k

(* C9 witness: two events have been dispatched, the second one a Down, and a
   third one is waiting in the channel. *)
C9_Witness ==
    /\ n_rcvd = 2 /\ n_sent = 3 /\ Len(chan) = 1
    /\ ev.code = "Down"

(* C10: forwarding a key leaves the tick deadline alone; the deadline is reset
   only by a step that sends Tick; and the tick check of an iteration sends
   Tick whenever the interval has elapsed, after a forwarded key too. *)
C10_TickDeadline ==
    [][ /\ (pump_pc = "poll" /\ pump_pc' = "tick") => elapsed' = elapsed
        /\ elapsed' < elapsed
              => (n_sent' = n_sent + 1 /\ chan'[Len(chan')].code = Tick)
        /\ (pump_pc = "tick" /\ pump_pc' = "poll" /\ elapsed >= TickRate)
              => /\ n_sent' = n_sent + 1
                 /\ chan'[Len(chan')].code = Tick
                 /\ elapsed' = 0 ]_vars

(* C10 witness: a key and, right behind it, the Tick of the same pump
   iteration are in the channel, and the deadline has been reset. *)
C10_Witness ==
    /\ Len(chan) = 2
    /\ chan[1].code \in KeyCodes /\ chan[2].code = Tick
    /\ chan[2].seq = chan[1].seq + 1
    /\ pump_pc = "poll" /\ elapsed = 0

(* C11: with no key input and fair scheduling the loop never stays blocked in
   rx.recv(): after any number k of events received (below the bound of the
   model) it receives a further Tick and draws the next frame; and a Tick
   leaves the view, the selection, the popup flag and the store as they were. *)
C11_TickHeartbeat ==
    /\ \A k \in 0..(MaxEvents - 1) :
          (n_rcvd = k) ~> (n_rcvd = k + 1 /\ ev.code = Tick /\ pc = "recv")
    /\ [][ Dispatching(Tick) => (UNCHANGED <<ui, db>> /\ pc' = "draw") ]_vars

(* C11 witness: with no key ever sent, two Ticks have been received and the
   frame after the second one is drawn. *)
C11_Witness ==
    /\ n_rcvd = 2 /\ ev.code = Tick /\ pc = "recv"
    /\ frame = RenderOrder(FALSE, "Home")

(* C12: add(name) on a persisted sequence s persists a sequence of length
   |s| + 1 whose first |s| elements are s, in order, and whose last element
   has the given name, completed_at = None and the id of the last element of
   s plus 1, or 0 when s is empty. *)
C12_AddAppends ==
    (call.op = "add" /\ fault = "none")
    => LET s == call.before
       IN  /\ Len(db) = Len(s) + 1
           /\ \A k \in 1..Len(s) : db[k] = s[k]
           /\ db[Len(db)].name = call.name
           /\ db[Len(db)].completed_at = None
           /\ db[Len(db)].id = IF Len(s) = 0 THEN 0 ELSE s[Len(s)].id + 1

(* C12 witness: "buy milk" has been added to a store with ids <<0, 2>>. *)
C12_Witness ==
    /\ call.op = "add" /\ fault = "none" /\ call.name = "buy milk"
    /\ Ids(call.before) = <<0, 2>>
    /\ Ids(db) = <<0, 2, 3>>

(* C13: in every store reached from the empty one by add and remove_at with
   valid indices, the ids are strictly increasing along the sequence, hence
   pairwise distinct. *)
C13_IdsIncreasing ==
    \A k \in 1..(Len(db) - 1) : db[k].id < db[k + 1].id

(* C13 witness: after removals the store holds ids <<1, 3>>: survivors keep
   their ids and the ids still increase. *)
C13_Witness ==
    /\ call.op = "remove" /\ fault = "none"
    /\ Ids(db) = <<1, 3>>

(* C14: in any state and either view 'a' sets the popup flag and Enter clears
   it, and neither changes the view, the selection or the store. *)
C14_PopupKeys ==
    [][ /\ Dispatching("a")
            => (show_pop_up' = TRUE /\ pc' = "draw"
                /\ UNCHANGED <<active_menu_item, task_list_state, db>>)
        /\ Dispatching("Enter")
            => (show_pop_up' = FALSE /\ pc' = "draw"
                /\ UNCHANGED <<active_menu_item, task_list_state, db>>) ]_vars

(* C14 witness: in the Tasks view, with the selection moved, Enter has closed
   the popup. *)
C14_Witness ==
    /\ pc = "draw" /\ ev.code = "Enter" /\ n_rcvd = 3
    /\ active_menu_item = "Tasks"
    /\ show_pop_up = FALSE

(* C15: the loop starts with the Home view, the selection Some(0) and no
   popup; 'h' sets the view to Home and 't' to Tasks, and neither changes the
   selection, the popup flag or the store. *)
C15_ViewKeys ==
    /\ [](n_rcvd = 0 => /\ active_menu_item = "Home"
                        /\ task_list_state = Some(0)
                        /\ show_pop_up = FALSE)
    /\ [][ /\ Dispatching("h")
               => (active_menu_item' = "Home" /\ pc' = "draw"
                   /\ UNCHANGED <<task_list_state, show_pop_up, db>>)
           /\ Dispatching("t")
               => (active_menu_item' = "Tasks" /\ pc' = "draw"
                   /\ UNCHANGED <<task_list_state, show_pop_up, db>>) ]_vars

(* C15 witness: 'h' has brought the view back to Home with the popup open. *)
C15_Witness ==
    /\ pc = "draw" /\ ev.code = "h" /\ n_rcvd = 3
    /\ active_menu_item = "Home"
    /\ show_pop_up = TRUE
    /\ frame = RenderOrder(TRUE, "Tasks")

(* C16, as claimed: if the file cannot be read or parsed when the program
   starts, the process ends during the render of the startup frame, before
   the loop blocks for its first event. *)
C16_FatalAtStartup ==
    (unreadable /\ n_rcvd = 0) => pc # "recv"

(* C16, amended: with such a file the startup frame, which shows the Home view
   and does not read the file, is drawn and the loop blocks for its first
   event; the failure is fatal during the render of the first frame drawn with
   the Tasks view. *)
C16_FatalAtTaskList ==
    [][ unreadable
        => /\ (pc = "draw" /\ n_rcvd = 0) => pc' \in {"draw", "recv"}
           /\ (pc = "draw" /\ pc' # "draw" /\ active_menu_item = "Tasks")
                 => pc' = "panicked" ]_vars

(* C16 witness: the file is unreadable, the Home frame was drawn, 't' was
   dispatched and the render of the Tasks frame has panicked. *)
C16_Witness ==
    /\ unreadable /\ pc = "panicked" /\ ev.code = "t"
    /\ active_menu_item = "Tasks"
    /\ fault = "read"
    /\ frame = RenderOrder(FALSE, "Home")

(* C17: while the Home view is active, 'd' leaves the persisted sequence and
   the selection unchanged.  Fails: the 'd' arm does not look at the view. *)
C17_DeleteOnlyInTaskList ==
    [][ (Dispatching("d") /\ active_menu_item = "Home")
        => (db' = db /\ task_list_state' = task_list_state) ]_vars

(* C18: in a frame drawn with the popup, the popup (Clear, then its block) is
   drawn after the widgets of the active view.  Fails: the draw closure
   renders the popup first and the view's widgets after it. *)
C18_PopupDrawnLast ==
    \A i, j \in DOMAIN frame :
        (frame[i] \in {"clear", "popup"} /\ frame[j] \in {"home", "list", "detail"})
        => j < i

(* C19: a frame of the Tasks view is drawn without failure exactly if the
   store is read and the selection is Some(i) with i below the number of tasks
   read; otherwise the render panics and the loop ends.  A frame of the Home
   view makes no access to the store and is always drawn. *)
C19_RenderTaskList ==
    [][ (pc = "draw" /\ pc' # "draw")
        => /\ active_menu_item = "Tasks"
                => /\ pc' \in {"recv", "panicked"}
                   /\ pc' = "recv" <=> (fault' = "none" /\ ValidSelection)
                   /\ pc' = "recv" => frame' = RenderOrder(show_pop_up, "Tasks")
           /\ active_menu_item = "Home"
                => (pc' = "recv" /\ fault' = fault) ]_vars

(* C19 witness: the Tasks view was asked for on an empty, readable store and
   the render has panicked. *)
C19_Witness ==
    /\ pc = "panicked" /\ ev.code = "t" /\ active_menu_item = "Tasks"
    /\ ~unreadable /\ fault = "none"
    /\ db = <<>>
    /\ task_list_state = Some(0)

(* C20: no step of the program lengthens the persisted sequence, only the
   dispatch of 'd' changes it, and 'a' only sets the popup flag. *)
C20_LoopNeverAdds ==
    [][ /\ Len(db') <= Len(db)
        /\ db' # db => Dispatching("d")
        /\ Dispatching("a")
              => (show_pop_up' = TRUE
                  /\ UNCHANGED <<db, active_menu_item, task_list_state, call>>) ]_vars

(* C20 witness: 'a' has been dispatched on a full store, which is still full. *)
C20_Witness ==
    /\ pc = "draw" /\ ev.code = "a" /\ n_rcvd = 1
    /\ show_pop_up = TRUE
    /\ Len(db) = MaxTasks
    /\ call = NoCall

====
